---- MODULE Spec2Model ----
(***************************************************************************)
(* Model of ai-quiz-generator/backend/app.py: the model selector           *)
(* (choose_model), the response normalizer (_parse_response_text), the     *)
(* generation invoker (generate_text_with_model) and the two JSON routes   *)
(* /api/generate and /api/debug-generate that drive them.                  *)
(*                                                                         *)
(* Python values are tagged records:                                       *)
(*   [k |-> "none"]                      None                              *)
(*   [k |-> "str",  v |-> s]             a str                             *)
(*   [k |-> "int",  v |-> s]             an int (decimal digits in s)      *)
(*   [k |-> "list"|"tuple", items |-> q] a list / tuple                    *)
(*   [k |-> "dict", m |-> f, attrs |-> g] a dict (subclass) with entries f *)
(*                                       and instance attributes g         *)
(*   [k |-> "obj",  attrs |-> g]         any other object, attributes g    *)
(*   [k |-> "raises"]                    stored as an attribute: reading   *)
(*                                       the attribute raises              *)
(***************************************************************************)
EXTENDS Integers, Sequences, FiniteSets, TLC

VARIABLES
    genai,        \* which generation callables the upstream client exposes
    pc,           \* position of the request handler
    route,        \* "none" | "generate" | "debug"
    prompt,       \* the handler's local prompt (after strip / default)
    model_name,   \* the handler's local model_name, None before selection
    last_exc,     \* generate_text_with_model's local last_exc
    attempts,     \* debug_generate's results["attempts"]
    calls,        \* history: upstream calls of this request, in order
    gen_result,   \* history: how generate_text_with_model ended
    response,     \* what the request ended with
    n_raw,        \* normalizer harness: the raw upstream response
    n_result,     \* normalizer harness: what _parse_response_text did
    cm_preferred, \* selector harness: preferred_list argument
    cm_models,    \* selector harness: what list_models returned
    cm_result     \* selector harness: what choose_model did

vars == <<genai, pc, route, prompt, model_name, last_exc, attempts, calls,
          gen_result, response, n_raw, n_result, cm_preferred, cm_models,
          cm_result>>

routeVars == <<genai, pc, route, prompt, model_name, last_exc, attempts,
               calls, gen_result, response>>
normVars == <<n_raw, n_result>>
chooseVars == <<cm_preferred, cm_models, cm_result>>

None == [k |-> "none"]
Str(s) == [k |-> "str", v |-> s]
PyInt(s) == [k |-> "int", v |-> s]
Raises == [k |-> "raises"]
NoEntries == [x \in {} |-> None]

\* f with x |-> v added or replaced
With(f, x, v) == [y \in DOMAIN f \cup {x} |-> IF y = x THEN v ELSE f[y]]

IsNone(v) == "k" \in DOMAIN v /\ v.k = "none"

Pending == [kind |-> "pending"]
Unused == [kind |-> "unused"]
Return(v) == [kind |-> "return", value |-> v]
Raise(e) == [kind |-> "raise", exc |-> e]

-----------------------------------------------------------------------------
(* Python primitives used by the code *)

\* isinstance(v, str)
IsStr(v) == v.k = "str"

\* isinstance(v, dict)
IsDict(v) == v.k = "dict"

\* the instance attributes of a value; the built-in types carry none of
\* text / candidates / outputs
AttrsOf(v) == IF v.k \in {"dict", "obj"} THEN v.attrs ELSE NoEntries

\* hasattr(v, a) evaluates the attribute: it answers False only for a missing
\* attribute, and an attribute whose getter raises makes hasattr raise
HasAttrRaises(v, a) == a \in DOMAIN AttrsOf(v) /\ AttrsOf(v)[a].k = "raises"
HasAttr(v, a) == a \in DOMAIN AttrsOf(v)
GetAttr(v, a) == AttrsOf(v)[a]

\* key in d, for a dict d
HasKey(d, key) == key \in DOMAIN d.m

\* bool(v) for a list or tuple: non-empty
NonEmptySeq(v, kinds) == v.k \in kinds /\ Len(v.items) > 0

\* str(v)
PyStr(v) ==
    CASE v.k = "str" -> v
      [] v.k = "none" -> Str("None")
      [] v.k = "int" -> Str(v.v)
      [] v.k = "list" -> Str("<list repr>")
      [] v.k = "tuple" -> Str("<tuple repr>")
      [] v.k = "dict" -> Str("<dict repr>")
      [] OTHER -> Str("<object repr>")

-----------------------------------------------------------------------------
(* _parse_response_text, app.py 64-101 *)

\* for k in ("content", "text", "output"): first key whose value is a str
FirstStrKey(first) ==
    IF HasKey(first, "content") /\ IsStr(first.m["content"])
        THEN Return(first.m["content"])
    ELSE IF HasKey(first, "text") /\ IsStr(first.m["text"])
        THEN Return(first.m["text"])
    ELSE IF HasKey(first, "output") /\ IsStr(first.m["output"])
        THEN Return(first.m["output"])
    ELSE [kind |-> "fallthrough"]

\* lines 89-99: attribute outputs, then str(resp)
ParseAttrOutputs(resp) ==
    IF HasAttrRaises(resp, "outputs") THEN Raise("probe")
    ELSE IF HasAttr(resp, "outputs")
            /\ NonEmptySeq(GetAttr(resp, "outputs"), {"list", "tuple"})
        THEN LET first == GetAttr(resp, "outputs").items[1] IN
             IF IsStr(first) THEN Return(first)
             ELSE IF IsDict(first) /\ FirstStrKey(first).kind = "return"
                 THEN FirstStrKey(first)
             ELSE Return(PyStr(resp))
    ELSE Return(PyStr(resp))

\* lines 81-88: attribute candidates
ParseAttrCandidates(resp) ==
    IF HasAttrRaises(resp, "candidates") THEN Raise("probe")
    ELSE IF HasAttr(resp, "candidates")
            /\ NonEmptySeq(GetAttr(resp, "candidates"), {"list", "tuple"})
        THEN LET first == GetAttr(resp, "candidates").items[1] IN
             IF HasAttrRaises(first, "text") THEN Raise("probe")
             ELSE IF HasAttr(first, "text") THEN Return(GetAttr(first, "text"))
             ELSE IF IsDict(first) /\ HasKey(first, "output")
                 THEN Return(first.m["output"])
             ELSE ParseAttrOutputs(resp)
    ELSE ParseAttrOutputs(resp)

\* lines 77-80: mapping "candidates"
ParseKeyCandidates(resp) ==
    IF HasKey(resp, "candidates")
            /\ NonEmptySeq(resp.m["candidates"], {"list"})
            /\ IsDict(resp.m["candidates"].items[1])
            /\ HasKey(resp.m["candidates"].items[1], "output")
        THEN Return(resp.m["candidates"].items[1].m["output"])
    ELSE ParseAttrCandidates(resp)

\* lines 71-76: mapping "outputs"
ParseKeyOutputs(resp) ==
    IF HasKey(resp, "outputs")
            /\ NonEmptySeq(resp.m["outputs"], {"list"})
            /\ IsDict(resp.m["outputs"].items[1])
            /\ FirstStrKey(resp.m["outputs"].items[1]).kind = "return"
        THEN FirstStrKey(resp.m["outputs"].items[1])
    ELSE ParseKeyCandidates(resp)

\* lines 68-70: mapping "output"
ParseDict(resp) ==
    IF ~IsDict(resp) THEN ParseAttrCandidates(resp)
    ELSE IF HasKey(resp, "output") /\ IsStr(resp.m["output"])
        THEN Return(resp.m["output"])
    ELSE ParseKeyOutputs(resp)

\* ParseTry with the mapping "output" entry looked at before the text
\* attribute
ParseTryOutputFirst(resp) ==
    IF IsDict(resp) /\ HasKey(resp, "output") /\ IsStr(resp.m["output"])
        THEN Return(resp.m["output"])
    ELSE IF HasAttrRaises(resp, "text") THEN Raise("probe")
    ELSE IF HasAttr(resp, "text") /\ IsStr(GetAttr(resp, "text"))
        THEN Return(GetAttr(resp, "text"))
    ELSE ParseDict(resp)

\* lines 66-67: attribute text; the body of the try block
ParseTry(resp) ==
    IF HasAttrRaises(resp, "text") THEN Raise("probe")
    ELSE IF HasAttr(resp, "text") /\ IsStr(GetAttr(resp, "text"))
        THEN Return(GetAttr(resp, "text"))
    ELSE ParseDict(resp)

\* the whole function: except Exception: return str(resp)
_parse_response_text(resp) ==
    IF ParseTry(resp).kind = "raise" THEN Return(PyStr(resp))
    ELSE ParseTry(resp)

-----------------------------------------------------------------------------
(* Model names, capability tags and prompts are sequences of characters, so *)
(* that lower() and strip() are computed on them.                           *)

UpperCase == <<"A", "B", "C", "D", "E", "F", "G", "H", "I", "J", "K", "L", "M", "N", "O", "P", "Q", "R", "S", "T", "U", "V", "W", "X", "Y", "Z">>
LowerCase == <<"a", "b", "c", "d", "e", "f", "g", "h", "i", "j", "k", "l", "m", "n", "o", "p", "q", "r", "s", "t", "u", "v", "w", "x", "y", "z">>

LowerChar(c) ==
    IF \E i \in DOMAIN UpperCase : UpperCase[i] = c
        THEN LowerCase[CHOOSE i \in DOMAIN UpperCase : UpperCase[i] = c]
        ELSE c

\* s.lower()
Lower(s) == [i \in DOMAIN s |-> LowerChar(s[i])]

\* e as RuntimeError(...) carries it, and str(e) of any exception
RuntimeError(msg) == [type |-> "RuntimeError", msg |-> msg]
ExcStr(e) == e.msg

-----------------------------------------------------------------------------
(* _get_models_list and choose_model, app.py 31-62.  A descriptor is        *)
(* [name, repr, capabilities]: name is <<>> when the object has no name     *)
(* attribute and <<n>> when it has the name n; repr is str(m);              *)
(* capabilities is the list of tags, empty when missing, None or [].        *)

\* the default preferred_list, lines 41-48
DefaultPreferred ==
    << <<"g", "e", "m", "i", "n", "i", "-", "p", "r", "o">>, <<"g", "e", "m", "i", "n", "i", "-", "1", ".", "5", "-", "p", "r", "o">>, <<"g", "e", "m", "i", "n", "i", "-", "u", "l", "t", "r", "a", "-", "1", ".", "0">>, <<"g", "e", "m", "i", "n", "i", "-", "1", ".", "0">>,
       <<"t", "e", "x", "t", "-", "b", "i", "s", "o", "n", "@", "0", "0", "1">>, <<"t", "e", "x", "t", "-", "b", "i", "s", "o", "n">> >>

\* line 60
GenerationTags ==
    { <<"g", "e", "n", "e", "r", "a", "t", "e">>, <<"g", "e", "n", "e", "r", "a", "t", "i", "o", "n", "s">>, <<"t", "e", "x", "t">>, <<"c", "h", "a", "t">>, <<"r", "e", "s", "p", "o", "n", "s", "e", "s">> }

\* getattr(m, "name", str(m))
NameOf(m) == IF m.name = <<>> THEN m.repr ELSE m.name[1]

\* _get_models_list: listing is what genai.list_models() did
GetModelsList(listing) ==
    IF listing.kind = "raise"
        THEN Raise(RuntimeError("Failed to list models: " \o ExcStr(listing.exc)))
        ELSE listing

\* line 52: the dict comprehension, filled in list order, so that a later
\* descriptor replaces an earlier one with the same lowered name
RECURSIVE BuildAvailable(_, _, _)
BuildAvailable(models, i, acc) ==
    IF i > Len(models) THEN acc
    ELSE BuildAvailable(models, i + 1,
                        With(acc, Lower(NameOf(models[i])), models[i]))

\* ScanPreferred with the candidate compared as written, not lowered
RECURSIVE ScanPreferredCaseSensitive(_, _, _)
ScanPreferredCaseSensitive(preferred, i, available) ==
    IF i > Len(preferred) THEN <<>>
    ELSE IF preferred[i] \in DOMAIN available
        THEN <<NameOf(available[preferred[i]])>>
    ELSE ScanPreferredCaseSensitive(preferred, i + 1, available)

\* lines 53-55: for cand in preferred_list; <<>> when the loop ends
RECURSIVE ScanPreferred(_, _, _)
ScanPreferred(preferred, i, available) ==
    IF i > Len(preferred) THEN <<>>
    ELSE IF Lower(preferred[i]) \in DOMAIN available
        THEN <<NameOf(available[Lower(preferred[i])])>>
    ELSE ScanPreferred(preferred, i + 1, available)

\* lines 58-60: caps is truthy and its lowered tags hold a generation tag
HasGenerationCap(m) ==
    /\ Len(m.capabilities) > 0
    /\ LET low_caps == {Lower(m.capabilities[i]) : i \in DOMAIN m.capabilities}
       IN \E k \in GenerationTags : k \in low_caps

\* lines 56-61: for m in models; <<>> when the loop ends
RECURSIVE ScanCapabilities(_, _)
ScanCapabilities(models, i) ==
    IF i > Len(models) THEN <<>>
    ELSE IF HasGenerationCap(models[i]) THEN <<NameOf(models[i])>>
    ELSE ScanCapabilities(models, i + 1)

\* lines 52-62, given the preferred list in force and a non-empty list
SelectFrom(preferred, models) ==
    LET byPreference == ScanPreferred(preferred, 1, BuildAvailable(models, 1, NoEntries))
        byCapability == ScanCapabilities(models, 1)
    IN IF byPreference # <<>> THEN byPreference[1]
       ELSE IF byCapability # <<>> THEN byCapability[1]
       ELSE NameOf(models[1])

\* choose_model(preferred_list): arg is [given |-> FALSE] for None
choose_model(arg, listing) ==
    LET got == GetModelsList(listing)
        preferred == IF arg.given THEN arg.list ELSE DefaultPreferred
    IN IF got.kind = "raise" THEN got
       ELSE IF Len(got.value) = 0
           THEN Raise(RuntimeError("No models returned by the API (empty list)."))
       ELSE Return(SelectFrom(preferred, got.value))

\* the exceptions the upstream client raises
UpstreamErrors ==
    {[type |-> "TypeError", msg |-> "unexpected keyword argument"],
     [type |-> "ValueError", msg |-> "invalid argument"],
     [type |-> "PermissionDenied", msg |-> "API key not valid"]}

-----------------------------------------------------------------------------
(* The upstream responses the normalizer is exercised on.  A response is    *)
(* built from at most MaxFields populated places among the three attributes *)
(* and the three mapping keys the code probes; the first elements of the    *)
(* lists are varied in full in responses with that one place.  Every str in *)
(* a response names the place it sits in, so that two places never hold     *)
(* equal text.                                                              *)

MaxFields == 2

Presence == {"absent", "str", "other"}

MkSeq(kind, items) == [k |-> kind, items |-> items]
MkDict(m) == [k |-> "dict", m |-> m, attrs |-> NoEntries]
MkObj(attrs) == [k |-> "obj", attrs |-> attrs]

\* a dict element with any of the keys content / text / output, each a str
\* or None
ElemDict(tag, c, t, o) ==
    LET p == [content |-> c, text |-> t, output |-> o]
        keys == {key \in {"content", "text", "output"} : p[key] # "absent"}
    IN MkDict([key \in keys |->
                  IF p[key] = "str" THEN Str(tag \o "." \o key) ELSE None])

ElemDicts(tag) ==
    {ElemDict(tag, c, t, o) : c \in Presence, t \in Presence, o \in Presence}

\* what sits under "outputs" (key or attribute) together with other places
OutputsValues(tag) ==
    LET t == tag \o "[0]" IN
    {None, MkSeq("list", <<>>), MkSeq("tuple", <<Str(t)>>),
     MkSeq("tuple", <<ElemDict(t, "str", "absent", "absent")>>)}
    \cup {MkSeq("list", <<e>>) :
            e \in {Str(t), None, MkDict(NoEntries),
                   ElemDict(t, "str", "absent", "absent"),
                   ElemDict(t, "absent", "other", "str")}}

\* every first element of a list under "outputs", on its own
OutputsElements(tag) ==
    {MkSeq("list", <<e>>) : e \in ElemDicts(tag \o "[0]")}

\* what sits under "candidates" (key or attribute) together with other places
CandidatesValues(tag) ==
    LET t == tag \o "[0]"
        elems == {Str(t), MkDict(NoEntries),
                  MkDict([output |-> Str(t \o ".output")]),
                  MkDict([output |-> None]),
                  MkObj([text |-> Str(t \o ".text")]),
                  MkObj([text |-> None]),
                  MkObj([text |-> Raises]),
                  [k |-> "dict", m |-> [output |-> Str(t \o ".output")],
                   attrs |-> [text |-> Str(t \o ".text")]]}
    IN {None, MkSeq("list", <<>>),
        MkSeq("tuple", <<MkObj([text |-> Str(t \o ".text")])>>)}
       \cup {MkSeq("list", <<e>>) : e \in elems}

\* further first elements of a list under "candidates", on their own
CandidatesElements(tag) ==
    LET t == tag \o "[0]" IN
    {MkSeq("tuple", <<MkDict([output |-> Str(t \o ".output")])>>),
     MkSeq("list", <<MkDict([output |-> PyInt("5")])>>),
     MkSeq("list", <<MkObj([text |-> MkObj(NoEntries)])>>),
     MkSeq("list", <<MkObj([text |-> PyInt("5")])>>)}

AttrNames == {"text", "candidates", "outputs"}
KeyNames == {"output", "outputs", "candidates"}

AttrValues(a) ==
    CASE a = "text" -> {Str("attr text"), None, Raises}
      [] a = "candidates" -> {Raises} \cup CandidatesValues("attr candidates")
      [] a = "outputs" -> {Raises} \cup OutputsValues("attr outputs")

KeyValues(key) ==
    CASE key = "output" -> {Str("key output"), None, PyInt("7")}
      [] key = "outputs" -> OutputsValues("key outputs")
      [] key = "candidates" -> CandidatesValues("key candidates")

\* the (attributes, entries) pairs with at most n populated places
RECURSIVE Shapes(_)
Shapes(n) ==
    IF n = 0 THEN {[attrs |-> NoEntries, m |-> NoEntries]}
    ELSE LET prev == Shapes(n - 1) IN
         prev
         \cup UNION {UNION {{[attrs |-> With(s.attrs, a, v), m |-> s.m] :
                               v \in AttrValues(a)} :
                            a \in AttrNames \ DOMAIN s.attrs} : s \in prev}
         \cup UNION {UNION {{[attrs |-> s.attrs, m |-> With(s.m, key, v)] :
                               v \in KeyValues(key)} :
                            key \in KeyNames \ DOMAIN s.m} : s \in prev}

\* a response with entries is a dict; one without is a dict or a plain object
RawResponses ==
    {None, Str("plain str"), PyInt("3"), MkSeq("list", <<>>),
     MkSeq("list", <<Str("in list")>>)}
    \cup {[k |-> "dict", m |-> s.m, attrs |-> s.attrs] : s \in Shapes(MaxFields)}
    \cup {MkObj(s.attrs) : s \in {s \in Shapes(MaxFields) : DOMAIN s.m = {}}}
    \cup {MkDict([outputs |-> v]) : v \in OutputsElements("key outputs")}
    \cup {MkObj([outputs |-> v]) : v \in OutputsElements("attr outputs")}
    \cup {MkDict([candidates |-> v]) : v \in CandidatesElements("key candidates")}
    \cup {MkObj([candidates |-> v]) : v \in CandidatesElements("attr candidates")}

-----------------------------------------------------------------------------
(* The HTTP routes.  One request is handled at a time; every upstream call  *)
(* is one step, its outcome (an exception or a raw response) chosen by the  *)
(* upstream service.                                                        *)

\* a str whose characters matter (a prompt)
PStr(cs) == [k |-> "str", chars |-> cs]

Whitespace == {" ", "\t", "\n"}

\* s.strip()
RECURSIVE Strip(_)
Strip(cs) ==
    IF Len(cs) = 0 THEN cs
    ELSE IF Head(cs) \in Whitespace THEN Strip(Tail(cs))
    ELSE IF cs[Len(cs)] \in Whitespace THEN Strip(SubSeq(cs, 1, Len(cs) - 1))
    ELSE cs

\* bool(v), for the values a JSON body can be
Truthy(v) ==
    CASE v.k = "none" -> FALSE
      [] v.k = "dict" -> DOMAIN v.m # {}
      [] v.k \in {"list", "tuple"} -> Len(v.items) > 0
      [] OTHER -> TRUE

AttributeError(msg) == [type |-> "AttributeError", msg |-> msg]

\* lines 160-161 and 182-183: payload = request.json or {};
\* payload.get("prompt", "").strip()
ReadPrompt(body) ==
    LET payload == IF Truthy(body) THEN body ELSE MkDict(NoEntries) IN
    IF ~IsDict(payload)
        THEN Raise(AttributeError("object has no attribute 'get'"))
    ELSE LET got == IF HasKey(payload, "prompt") THEN payload.m["prompt"]
                    ELSE PStr(<<>>)
         IN IF ~IsStr(got)
                THEN Raise(AttributeError("object has no attribute 'strip'"))
                ELSE Return(Strip(got.chars))

\* the bodies request.json yields
RequestBodies ==
    {None, MkDict(NoEntries), MkSeq("list", <<PyInt("1")>>),
     MkDict([prompt |-> None]), MkDict([prompt |-> PyInt("5")])}
    \cup {MkDict([prompt |-> PStr(cs)]) :
            cs \in {<<>>, <<" ", "\n">>, <<"q", "u", "i", "z">>, <<" ", "q", "u", "i", "z", "\n">>}}

\* line 183
DebugDefaultPrompt == <<"H", "e", "l", "l", "o", " ", "d", "e", "b", "u", "g">>

\* line 193
PreviewLen == 500

\* json.dumps accepts v
RECURSIVE JsonSerializable(_)
JsonSerializable(v) ==
    CASE v.k \in {"none", "str", "int"} -> TRUE
      [] v.k \in {"list", "tuple"} ->
            \A i \in DOMAIN v.items : JsonSerializable(v.items[i])
      [] v.k = "dict" -> \A key \in DOMAIN v.m : JsonSerializable(v.m[key])
      [] OTHER -> FALSE

\* jsonify(body), status: the response the handler returns
Json(status, body) == [kind |-> "json", status |-> status, body |-> body]

\* an exception that leaves the handler
Uncaught(e) == [kind |-> "uncaught", exc |-> e]

\* repr(e)
ExcRepr(e) == e.type \o "('" \o e.msg \o "')"

\* the raw responses the routes are exercised on: a text attribute; a
\* candidates attribute whose first element is a dict with output None; one
\* whose first element has an object for text; an object of no known shape
RouteResponses ==
    {MkObj([text |-> Str("attr text")]),
     MkObj([candidates |-> MkSeq("list", <<MkDict([output |-> None])>>)]),
     MkObj([candidates |-> MkSeq("list", <<MkObj([text |-> MkObj(NoEntries)])>>)])}

UpstreamOutcomes ==
    {Raise(e) : e \in UpstreamErrors} \cup {Return(r) : r \in RouteResponses}

\* what genai.list_models() yields in the routes
RouteDescriptors ==
    {[name |-> << <<"G", "e", "m", "i", "n", "i", "-", "P", "r", "o">> >>, repr |-> <<"<", "M", "o", "d", "e", "l", ">">>, capabilities |-> <<>>],
     [name |-> << <<"m", "o", "d", "e", "l", "s", "/", "e", "m", "b", "e", "d", "d", "i", "n", "g", "-", "0", "0", "1">> >>, repr |-> <<"<", "M", "o", "d", "e", "l", ">">>,
      capabilities |-> << <<"e", "m", "b", "e", "d", "C", "o", "n", "t", "e", "n", "t">> >>],
     [name |-> << <<"m", "o", "d", "e", "l", "s", "/", "c", "h", "a", "t", "-", "b", "i", "s", "o", "n">> >>, repr |-> <<"<", "M", "o", "d", "e", "l", ">">>,
      capabilities |-> << <<"C", "h", "a", "t">> >>]}

MaxListed == 2

RECURSIVE ListsUpTo(_, _)
ListsUpTo(S, n) ==
    IF n = 0 THEN {<<>>}
    ELSE ListsUpTo(S, n - 1)
         \cup {Append(q, x) : q \in {q \in ListsUpTo(S, n - 1) : Len(q) = n - 1},
                              x \in S}

RouteListings ==
    {Raise(e) : e \in UpstreamErrors}
    \cup {Return(q) : q \in ListsUpTo(RouteDescriptors, MaxListed)}

Call(method, param, result) ==
    [method |-> method, param |-> param, result |-> result]

\* hasattr(genai, "responses") and hasattr(genai.responses, "create")
HasResponsesCreate == genai.responses = "create"

ResetRequest ==
    /\ pc' = "idle"
    /\ route' = "none"
    /\ prompt' = <<>>
    /\ model_name' = <<>>
    /\ last_exc' = None
    /\ attempts' = <<>>
    /\ calls' = <<>>
    /\ gen_result' = Pending
    /\ response' = Pending

\* generate_route, lines 160-166
ReceiveGenerate(body) ==
    /\ pc = "idle"
    /\ route' = "generate"
    /\ LET r == ReadPrompt(body) IN
       IF r.kind = "raise"
           THEN /\ response' = Uncaught(r.exc)
                /\ pc' = "done"
                /\ UNCHANGED prompt
       ELSE IF Len(r.value) = 0
           THEN /\ response' = Json(400, [ok |-> FALSE,
                                   error |-> Str("Missing prompt in JSON body.")])
                /\ pc' = "done"
                /\ UNCHANGED prompt
       ELSE /\ prompt' = r.value
            /\ pc' = "choose"
            /\ UNCHANGED response
    /\ UNCHANGED <<genai, model_name, last_exc, attempts, calls, gen_result,
                   normVars, chooseVars>>

\* ChooseGenerate that goes on with the first default model when selection
\* fails
ChooseGenerateIgnoresFailure(listing) ==
    /\ pc = "choose"
    /\ route = "generate"
    /\ calls' = Append(calls, Call("list_models", "none", listing))
    /\ LET r == choose_model([given |-> FALSE], listing) IN
       model_name' = IF r.kind = "raise" THEN <<DefaultPreferred[1]>>
                     ELSE <<r.value>>
    /\ pc' = "s1"
    /\ UNCHANGED <<genai, route, prompt, last_exc, attempts, gen_result,
                   response, normVars, chooseVars>>

\* generate_route, lines 168-171
ChooseGenerate(listing) ==
    /\ pc = "choose"
    /\ route = "generate"
    /\ calls' = Append(calls, Call("list_models", "none", listing))
    /\ LET r == choose_model([given |-> FALSE], listing) IN
       IF r.kind = "raise"
           THEN /\ response' = Json(500, [ok |-> FALSE,
                      error |-> Str("Model selection failed: " \o ExcStr(r.exc))])
                /\ pc' = "done"
                /\ UNCHANGED model_name
           ELSE /\ model_name' = <<r.value>>
                /\ pc' = "s1"
                /\ UNCHANGED response
    /\ UNCHANGED <<genai, route, prompt, last_exc, attempts, gen_result,
                   normVars, chooseVars>>

\* generate_text_with_model returns out: lines 175-177, jsonify inside the try
ReturnText(out) ==
    /\ gen_result' = Return(out)
    /\ response' =
         IF JsonSerializable(out)
             THEN Json(200, [ok |-> TRUE, model_used |-> PStr(model_name[1]),
                             output |-> out])
             ELSE Json(500, [ok |-> FALSE,
                             error |-> Str("Object is not JSON serializable")])
    /\ pc' = "done"

\* line 140, and generate_route's lines 176-177
RaiseAllFailed(exc) ==
    LET msg == "All generation attempts failed. Last error: "
               \o (IF IsNone(exc) THEN "Unknown error" ELSE ExcStr(exc))
    IN /\ gen_result' = Raise(RuntimeError(msg))
       /\ response' = Json(500, [ok |-> FALSE, error |-> Str(msg)])
       /\ pc' = "done"

\* what follows a strategy that was skipped or raised, last_exc being exc
AfterFailure(next, exc) ==
    IF next = "fail" THEN RaiseAllFailed(exc)
    ELSE /\ pc' = next
         /\ UNCHANGED <<gen_result, response>>

\* Strategy that does not return on a response: it goes on to the next
\* strategy and returns the text only from the last one
StrategyKeepsGoing(here, next, present, method, outcome) ==
    /\ pc = here
    /\ IF ~present
           THEN /\ AfterFailure(next, last_exc)
                /\ UNCHANGED <<calls, last_exc>>
       ELSE /\ calls' = Append(calls, Call(method, "prompt", outcome))
            /\ IF outcome.kind = "raise"
                   THEN /\ last_exc' = outcome.exc
                        /\ AfterFailure(next, outcome.exc)
               ELSE IF next = "fail"
                   THEN /\ ReturnText(_parse_response_text(outcome.value).value)
                        /\ UNCHANGED last_exc
               ELSE /\ pc' = next
                    /\ UNCHANGED <<last_exc, gen_result, response>>
    /\ UNCHANGED <<genai, route, prompt, model_name, attempts, normVars,
                   chooseVars>>

\* Strategy that forgets the last error when it skips an absent strategy
StrategyAbsentClears(here, next, present, method, outcome) ==
    /\ pc = here
    /\ IF ~present
           THEN /\ AfterFailure(next, None)
                /\ last_exc' = None
                /\ UNCHANGED calls
       ELSE /\ calls' = Append(calls, Call(method, "prompt", outcome))
            /\ IF outcome.kind = "raise"
                   THEN /\ last_exc' = outcome.exc
                        /\ AfterFailure(next, outcome.exc)
                   ELSE /\ ReturnText(_parse_response_text(outcome.value).value)
                        /\ UNCHANGED last_exc
    /\ UNCHANGED <<genai, route, prompt, model_name, attempts, normVars,
                   chooseVars>>

\* one try block of lines 106-119 and 134-139
Strategy(here, next, present, method, outcome) ==
    /\ pc = here
    /\ IF ~present
           THEN /\ AfterFailure(next, last_exc)
                /\ UNCHANGED <<calls, last_exc>>
       ELSE /\ calls' = Append(calls, Call(method, "prompt", outcome))
            /\ IF outcome.kind = "raise"
                   THEN /\ last_exc' = outcome.exc
                        /\ AfterFailure(next, outcome.exc)
                   ELSE /\ ReturnText(_parse_response_text(outcome.value).value)
                        /\ UNCHANGED last_exc
    /\ UNCHANGED <<genai, route, prompt, model_name, attempts, normVars,
                   chooseVars>>

\* lines 106-112
Strategy1(outcome) ==
    Strategy("s1", "s2", genai.generate_text, "generate_text", outcome)

\* lines 114-120
Strategy2(outcome) ==
    Strategy("s2", "s3", genai.generate, "generate", outcome)

\* Strategy3Input that retries with prompt= after any exception
Strategy3InputRetriesAnyError(outcome) ==
    /\ pc = "s3"
    /\ IF ~HasResponsesCreate
           THEN /\ pc' = "s4"
                /\ UNCHANGED <<calls, last_exc, gen_result, response>>
       ELSE /\ calls' = Append(calls, Call("responses.create", "input", outcome))
            /\ IF outcome.kind = "raise"
                   THEN /\ pc' = "s3prompt"
                        /\ UNCHANGED <<last_exc, gen_result, response>>
                   ELSE /\ ReturnText(_parse_response_text(outcome.value).value)
                        /\ UNCHANGED last_exc
    /\ UNCHANGED <<genai, route, prompt, model_name, attempts, normVars,
                   chooseVars>>

\* lines 122-126, 131-132: responses.create(input=...)
Strategy3Input(outcome) ==
    /\ pc = "s3"
    /\ IF ~HasResponsesCreate
           THEN /\ pc' = "s4"
                /\ UNCHANGED <<calls, last_exc, gen_result, response>>
       ELSE /\ calls' = Append(calls, Call("responses.create", "input", outcome))
            /\ IF outcome.kind = "raise" /\ outcome.exc.type = "TypeError"
                   THEN /\ pc' = "s3prompt"
                        /\ UNCHANGED <<last_exc, gen_result, response>>
               ELSE IF outcome.kind = "raise"
                   THEN /\ last_exc' = outcome.exc
                        /\ pc' = "s4"
                        /\ UNCHANGED <<gen_result, response>>
               ELSE /\ ReturnText(_parse_response_text(outcome.value).value)
                    /\ UNCHANGED last_exc
    /\ UNCHANGED <<genai, route, prompt, model_name, attempts, normVars,
                   chooseVars>>

\* lines 127-132: responses.create(prompt=...) after the TypeError
Strategy3Prompt(outcome) ==
    /\ pc = "s3prompt"
    /\ calls' = Append(calls, Call("responses.create", "prompt", outcome))
    /\ IF outcome.kind = "raise"
           THEN /\ last_exc' = outcome.exc
                /\ pc' = "s4"
                /\ UNCHANGED <<gen_result, response>>
           ELSE /\ ReturnText(_parse_response_text(outcome.value).value)
                /\ UNCHANGED last_exc
    /\ UNCHANGED <<genai, route, prompt, model_name, attempts, normVars,
                   chooseVars>>

\* lines 134-140
Strategy4(outcome) ==
    Strategy("s4", "fail", genai.create, "create", outcome)

\* debug_generate, lines 182-183
ReceiveDebug(body) ==
    /\ pc = "idle"
    /\ route' = "debug"
    /\ LET r == ReadPrompt(body) IN
       IF r.kind = "raise"
           THEN /\ response' = Uncaught(r.exc)
                /\ pc' = "done"
                /\ UNCHANGED prompt
           ELSE /\ prompt' = IF Len(r.value) = 0 THEN DebugDefaultPrompt
                             ELSE r.value
                /\ pc' = "choose"
                /\ UNCHANGED response
    /\ UNCHANGED <<genai, model_name, last_exc, attempts, calls, gen_result,
                   normVars, chooseVars>>

\* debug_generate, lines 184-189
ChooseDebug(listing) ==
    /\ pc = "choose"
    /\ route = "debug"
    /\ calls' = Append(calls, Call("list_models", "none", listing))
    /\ LET r == choose_model([given |-> FALSE], listing) IN
       IF r.kind = "raise"
           THEN /\ response' = Json(500, [ok |-> FALSE,
                                          stage |-> Str("choose_model"),
                                          error |-> Str(ExcStr(r.exc))])
                /\ pc' = "done"
                /\ UNCHANGED model_name
           ELSE /\ model_name' = <<r.value>>
                /\ pc' = "d1"
                /\ UNCHANGED response
    /\ UNCHANGED <<genai, route, prompt, last_exc, attempts, gen_result,
                   normVars, chooseVars>>

\* out[:500] if isinstance(out, str) else str(out), line 193
Preview(out) ==
    IF IsStr(out) THEN [k |-> "str", slice |-> PreviewLen, of |-> out.v]
    ELSE PyStr(out)

\* try_call, lines 190-195: res is what fn() did
TryCall(name, res) ==
    IF res.kind = "raise"
        THEN [method |-> name, ok |-> FALSE, error |-> Str(ExcRepr(res.exc))]
        ELSE [method |-> name, ok |-> TRUE, output_preview |-> Preview(res.value)]

Missing(msg) == Raise([type |-> "Exception", msg |-> msg])

\* the lambda of lines 198-205 and 219: parse the response, or pass the
\* exception on
ParseOutcome(outcome) ==
    IF outcome.kind = "raise" THEN outcome
    ELSE _parse_response_text(outcome.value)

\* line 221
DebugRespond(all) ==
    /\ response' = Json(200, [ok |-> TRUE,
                              debug |-> [model_used |-> PStr(model_name[1]),
                                         attempts |-> all]])
    /\ pc' = "done"

\* DebugAttempt that answers as soon as an attempt succeeds
DebugAttemptStopsOnSuccess(here, next, present, name, method, outcome) ==
    /\ pc = here
    /\ LET res == IF present THEN ParseOutcome(outcome)
                  ELSE Missing("attribute missing")
           all == Append(attempts, TryCall(name, res))
       IN /\ attempts' = all
          /\ calls' = IF present
                          THEN Append(calls, Call(method, "prompt", outcome))
                          ELSE calls
          /\ IF next = "respond" \/ res.kind = "return" THEN DebugRespond(all)
             ELSE pc' = next /\ UNCHANGED response
    /\ UNCHANGED <<genai, route, prompt, model_name, last_exc, gen_result,
                   normVars, chooseVars>>

\* one results["attempts"].append(try_call(...)) of lines 198-205 and 219
DebugAttempt(here, next, present, name, method, outcome) ==
    /\ pc = here
    /\ LET res == IF present THEN ParseOutcome(outcome)
                  ELSE Missing("attribute missing")
           all == Append(attempts, TryCall(name, res))
       IN /\ attempts' = all
          /\ calls' = IF present
                          THEN Append(calls, Call(method, "prompt", outcome))
                          ELSE calls
          /\ IF next = "respond" THEN DebugRespond(all)
             ELSE pc' = next /\ UNCHANGED response
    /\ UNCHANGED <<genai, route, prompt, model_name, last_exc, gen_result,
                   normVars, chooseVars>>

\* lines 198-200
DebugAttempt1(outcome) ==
    DebugAttempt("d1", "d2", genai.generate_text, "genai.generate_text",
                 "generate_text", outcome)

\* lines 203-205
DebugAttempt2(outcome) ==
    DebugAttempt("d2", "d3", genai.generate, "genai.generate", "generate",
                 outcome)

\* try_responses, lines 208-212, 215-216: responses.create(input=...)
DebugAttempt3Input(outcome) ==
    /\ pc = "d3"
    /\ IF ~HasResponsesCreate
           THEN /\ attempts' = Append(attempts,
                      TryCall("genai.responses.create",
                              Missing("responses.create missing")))
                /\ pc' = "d4"
                /\ UNCHANGED calls
       ELSE /\ calls' = Append(calls, Call("responses.create", "input", outcome))
            /\ IF outcome.kind = "raise" /\ outcome.exc.type = "TypeError"
                   THEN /\ pc' = "d3prompt"
                        /\ UNCHANGED attempts
                   ELSE /\ attempts' = Append(attempts,
                              TryCall("genai.responses.create",
                                      ParseOutcome(outcome)))
                        /\ pc' = "d4"
    /\ UNCHANGED <<genai, route, prompt, model_name, last_exc, gen_result,
                   response, normVars, chooseVars>>

\* try_responses, lines 213-216: responses.create(prompt=...)
DebugAttempt3Prompt(outcome) ==
    /\ pc = "d3prompt"
    /\ calls' = Append(calls, Call("responses.create", "prompt", outcome))
    /\ attempts' = Append(attempts,
                          TryCall("genai.responses.create", ParseOutcome(outcome)))
    /\ pc' = "d4"
    /\ UNCHANGED <<genai, route, prompt, model_name, last_exc, gen_result,
                   response, normVars, chooseVars>>

\* lines 219-221
DebugAttempt4(outcome) ==
    DebugAttempt("d4", "respond", genai.create, "genai.create", "create",
                 outcome)

\* the response is sent; the handler's locals are gone
NextRequest ==
    /\ pc = "done"
    /\ ResetRequest
    /\ UNCHANGED <<genai, normVars, chooseVars>>

\* the callables the installed google.generativeai exposes
Clients ==
    [generate_text : BOOLEAN, generate : BOOLEAN,
     responses : {"absent", "nocreate", "create"}, create : BOOLEAN]

RoutesIdle ==
    /\ pc = "idle"
    /\ route = "none"
    /\ prompt = <<>>
    /\ model_name = <<>>
    /\ last_exc = None
    /\ attempts = <<>>
    /\ calls = <<>>
    /\ gen_result = Pending
    /\ response = Pending

NormalizerUnused == n_raw = None /\ n_result = Unused
SelectorUnused ==
    /\ cm_preferred = [given |-> FALSE]
    /\ cm_models = Return(<<>>)
    /\ cm_result = Unused

Init ==
    /\ genai \in Clients
    /\ RoutesIdle
    /\ NormalizerUnused
    /\ SelectorUnused

Next ==
    \/ \E body \in RequestBodies : ReceiveGenerate(body)
    \/ \E listing \in RouteListings : ChooseGenerate(listing)
    \/ \E outcome \in UpstreamOutcomes : Strategy1(outcome)
    \/ \E outcome \in UpstreamOutcomes : Strategy2(outcome)
    \/ \E outcome \in UpstreamOutcomes : Strategy3Input(outcome)
    \/ \E outcome \in UpstreamOutcomes : Strategy3Prompt(outcome)
    \/ \E outcome \in UpstreamOutcomes : Strategy4(outcome)
    \/ \E body \in RequestBodies : ReceiveDebug(body)
    \/ \E listing \in RouteListings : ChooseDebug(listing)
    \/ \E outcome \in UpstreamOutcomes : DebugAttempt1(outcome)
    \/ \E outcome \in UpstreamOutcomes : DebugAttempt2(outcome)
    \/ \E outcome \in UpstreamOutcomes : DebugAttempt3Input(outcome)
    \/ \E outcome \in UpstreamOutcomes : DebugAttempt3Prompt(outcome)
    \/ \E outcome \in UpstreamOutcomes : DebugAttempt4(outcome)
    \/ NextRequest

Spec == Init /\ [][Next]_vars

-----------------------------------------------------------------------------
(* The normalizer on its own: one call of _parse_response_text per input *)

NormalizeCall ==
    /\ n_result = Pending
    /\ n_raw \in RawResponses
    /\ n_result' = _parse_response_text(n_raw)
    /\ UNCHANGED <<n_raw, routeVars, chooseVars>>

-----------------------------------------------------------------------------
(* The selector on its own: one call of choose_model per input.  The        *)
(* upstream list holds at most MaxModels descriptors.                       *)

MaxModels == 2

HarnessNames ==
    { <<"M", "o", "d", "e", "l", "-", "B">>, <<"m", "o", "d", "e", "l", "-", "a">>, <<"M", "O", "D", "E", "L", "-", "A">>, <<"G", "e", "m", "i", "n", "i", "-", "P", "r", "o">>, <<"e", "m", "b", "e", "d", "-", "1">> }

HarnessCaps == { <<>>, << <<"C", "h", "a", "t">> >>, << <<"e", "m", "b", "e", "d", "C", "o", "n", "t", "e", "n", "t">> >>,
                 << <<"e", "m", "b", "e", "d", "C", "o", "n", "t", "e", "n", "t">>, <<"g", "e", "n", "e", "r", "a", "t", "e", "C", "o", "n", "t", "e", "n", "t">>, <<"T", "E", "X", "T">> >> }

HarnessDescriptors ==
    {[name |-> <<n>>, repr |-> <<"<", "M", "o", "d", "e", "l", ">">>, capabilities |-> c] :
        n \in HarnessNames, c \in HarnessCaps}
    \cup {[name |-> <<>>, repr |-> r, capabilities |-> <<>>] :
            r \in {<<"<", "M", "o", "d", "e", "l", "-", "B", ">">>, <<"m", "o", "d", "e", "l", "-", "a">>}}

HarnessPreferred ==
    {[given |-> FALSE],
     [given |-> TRUE, list |-> << <<"m", "o", "d", "e", "l", "-", "a">>, <<"m", "o", "d", "e", "l", "-", "b">> >>],
     [given |-> TRUE, list |-> << <<"M", "o", "d", "e", "l", "-", "B">>, <<"m", "o", "d", "e", "l", "-", "a">> >>],
     [given |-> TRUE, list |-> <<>>]}

ChooseCall ==
    /\ cm_result = Pending
    /\ cm_result' = choose_model(cm_preferred, cm_models)
    /\ UNCHANGED <<cm_preferred, cm_models, routeVars, normVars>>

InitNormalize ==
    /\ n_raw \in RawResponses
    /\ n_result = Pending
    /\ genai = [generate_text |-> TRUE, generate |-> TRUE,
                responses |-> "create", create |-> TRUE]
    /\ RoutesIdle
    /\ SelectorUnused

NextNormalize == NormalizeCall

SpecNormalize == InitNormalize /\ [][NextNormalize]_vars

InitChoose ==
    /\ cm_preferred \in HarnessPreferred
    /\ cm_models \in {Raise(e) : e \in UpstreamErrors}
                     \cup {Return(q) : q \in ListsUpTo(HarnessDescriptors, MaxModels)}
    /\ cm_result = Pending
    /\ genai = [generate_text |-> TRUE, generate |-> TRUE,
                responses |-> "create", create |-> TRUE]
    /\ RoutesIdle
    /\ NormalizerUnused

NextChoose == ChooseCall

SpecChoose == InitChoose /\ [][NextChoose]_vars

-----------------------------------------------------------------------------
(* What the claims are stated over *)

\* the generation calls of the request so far, in the order they were made
GenCalls == SelectSeq(calls, LAMBDA c : c.method # "list_models")

\* the responses.create calls of the request so far
ResponsesCalls == SelectSeq(calls, LAMBDA c : c.method = "responses.create")

StrategyOf(method) ==
    CASE method = "generate_text" -> 1
      [] method = "generate" -> 2
      [] method = "responses.create" -> 3
      [] method = "create" -> 4

Present(s) ==
    CASE s = 1 -> genai.generate_text
      [] s = 2 -> genai.generate
      [] s = 3 -> genai.responses = "create"
      [] s = 4 -> genai.create

\* strategy s was called and its last call raised
RaisedIn(s) ==
    \E i \in DOMAIN GenCalls :
        /\ StrategyOf(GenCalls[i].method) = s
        /\ GenCalls[i].result.kind = "raise"
        /\ \A j \in DOMAIN GenCalls :
              StrategyOf(GenCalls[j].method) = s => j <= i

SelectionSucceeded == model_name # <<>>

SelectionFailed ==
    /\ Len(calls) >= 1
    /\ calls[1].method = "list_models"
    /\ \/ calls[1].result.kind = "raise"
       \/ calls[1].result.kind = "return" /\ Len(calls[1].result.value) = 0

\* C1: in generate_text_with_model the strategies are called in the fixed
\* order generate_text, generate, responses.create, create; only strategies
\* the client has are called; every call but the last one made has raised;
\* and when the function returns, it returns the normalized response of the
\* last call made, every present strategy before that one having been called.
C1_FirstSuccessWins ==
    route = "generate" =>
        LET g == GenCalls
            n == Len(GenCalls)
        IN /\ \A i \in 1..n : Present(StrategyOf(g[i].method))
           /\ \A i \in 1..n : \A j \in 1..n :
                 i < j => StrategyOf(g[i].method) <= StrategyOf(g[j].method)
           /\ \A i \in 1..n : i < n => g[i].result.kind = "raise"
           /\ gen_result.kind = "return" =>
                 /\ n >= 1
                 /\ g[n].result.kind = "return"
                 /\ gen_result = _parse_response_text(g[n].result.value)
                 /\ \A s \in 1..4 :
                       (s < StrategyOf(g[n].method) /\ Present(s)) => RaisedIn(s)

\* strategy 1 raised and strategy 2 returned on a client that also has
\* strategies 3 and 4, and the function has returned
C1_Witness ==
    /\ route = "generate"
    /\ gen_result.kind = "return"
    /\ genai.responses = "create"
    /\ genai.create
    /\ Len(GenCalls) = 2
    /\ GenCalls[1].method = "generate_text"
    /\ GenCalls[2].method = "generate"

AllFailedMessage ==
    "All generation attempts failed. Last error: "
    \o (IF Len(GenCalls) = 0 THEN "Unknown error"
        ELSE ExcStr(GenCalls[Len(GenCalls)].result.exc))

\* C2: once /api/generate has answered after a successful selection,
\* generate_text_with_model has failed exactly when each of the four
\* strategies was absent or raised, and then the failure (and the 500
\* response) carries the error of the last call made, or "Unknown error" when
\* no call was made.
C2_FailsWithLastError ==
    (route = "generate" /\ pc = "done" /\ SelectionSucceeded) =>
        /\ gen_result.kind \in {"return", "raise"}
        /\ gen_result.kind = "raise" <=>
              \A s \in 1..4 : ~Present(s) \/ RaisedIn(s)
        /\ gen_result.kind = "raise" =>
              /\ gen_result.exc = RuntimeError(AllFailedMessage)
              /\ response = Json(500, [ok |-> FALSE,
                                       error |-> Str(AllFailedMessage)])

\* every strategy failed, the last one called was followed by an absent
\* strategy, and an earlier call raised a different error
C2_Witness ==
    /\ route = "generate"
    /\ gen_result.kind = "raise"
    /\ ~genai.create
    /\ Len(GenCalls) >= 2
    /\ GenCalls[1].result.exc # GenCalls[Len(GenCalls)].result.exc

\* field f of a JSON body is there and not null
Populated(body, f) == f \in DOMAIN body /\ ~IsNone(body[f])

\* C3: every JSON body /api/generate answers with has exactly one of output
\* and error populated: ok=true with model_used and output and status 200, or
\* ok=false with error, the status being 500 when the prompt was accepted.
C3_ExactlyOneOfOutputError ==
    (route = "generate" /\ pc = "done" /\ response.kind = "json") =>
        LET body == response.body IN
        /\ Populated(body, "output") # Populated(body, "error")
        /\ body.ok => /\ response.status = 200
                      /\ Populated(body, "model_used")
                      /\ Populated(body, "output")
        /\ ~body.ok => /\ Populated(body, "error")
                       /\ response.status = IF prompt = <<>> THEN 400 ELSE 500

\* C4: a generation call is only ever made after list_models returned a
\* non-empty list and model_name was set from it; and when selection failed,
\* list_models is the only upstream call of the request and the request has
\* ended with a JSON error of status 500.
C4_SelectionBeforeGeneration ==
    /\ \A i \in DOMAIN calls :
          calls[i].method # "list_models" =>
              /\ i > 1
              /\ calls[1].method = "list_models"
              /\ calls[1].result.kind = "return"
              /\ Len(calls[1].result.value) > 0
              /\ SelectionSucceeded
              /\ \E j \in DOMAIN calls[1].result.value :
                    NameOf(calls[1].result.value[j]) = model_name[1]
    /\ \A i \in DOMAIN calls : calls[i].method = "list_models" => i = 1
    /\ SelectionFailed =>
          /\ Len(calls) = 1
          /\ ~SelectionSucceeded
          /\ pc = "done"
          /\ response.kind = "json"
          /\ response.status = 500
          /\ ~response.body.ok
          /\ Populated(response.body, "error")

\* /api/debug-generate ended after list_models returned an empty list
C4_Witness ==
    /\ route = "debug"
    /\ pc = "done"
    /\ calls = <<Call("list_models", "none", Return(<<>>))>>
    /\ response.status = 500

DebugMethods ==
    <<"genai.generate_text", "genai.generate", "genai.responses.create",
      "genai.create">>

\* C5: once selection has succeeded, /api/debug-generate never ends with an
\* exception; its attempt records are, in order, those of generate_text,
\* generate, responses.create and create; and it answers ok=true, status 200,
\* with exactly those four records, every strategy the client has having been
\* called whatever the earlier ones did.
C5_DebugRunsAllFour ==
    (route = "debug" /\ SelectionSucceeded) =>
        /\ response.kind # "uncaught"
        /\ Len(attempts) <= 4
        /\ \A i \in DOMAIN attempts : attempts[i].method = DebugMethods[i]
        /\ pc = "done" =>
              /\ response.kind = "json"
              /\ response.status = 200
              /\ response.body.ok
              /\ response.body.debug.model_used = PStr(model_name[1])
              /\ response.body.debug.attempts = attempts
              /\ Len(attempts) = 4
              /\ \A s \in 1..4 :
                    Present(s) <=>
                        \E i \in DOMAIN GenCalls :
                            StrategyOf(GenCalls[i].method) = s

\* strategy 1 failed, strategy 2 succeeded, and strategies 3 and 4 were
\* still called and recorded
C5_Witness ==
    /\ route = "debug"
    /\ pc = "done"
    /\ Len(attempts) = 4
    /\ ~attempts[1].ok
    /\ attempts[2].ok
    /\ \A s \in 1..4 : \E i \in DOMAIN GenCalls : StrategyOf(GenCalls[i].method) = s

\* C6: _parse_response_text returns, and what it returns is a str.
C6_AlwaysReturnsString ==
    n_result.kind \in {"return", "raise"} =>
        n_result.kind = "return" /\ IsStr(n_result.value)

\* C8: no request ends with an exception leaving the handler: every request
\* that has ended has a JSON body.
C8_NoUncaughtException ==
    pc = "done" => response.kind = "json"

Min(S) == CHOOSE x \in S : \A y \in S : x <= y

\* the rules of the normalizer, by priority
KeyPriority == <<"content", "text", "output">>

\* the keys of KeyPriority that a dict element holds a str under
StrKeys(first) ==
    {i \in DOMAIN KeyPriority :
        KeyPriority[i] \in DOMAIN first.m /\ IsStr(first.m[KeyPriority[i]])}

\* a list (or, under an attribute, a tuple) with a first element
FirstOf(v) == v.items[1]
KeyList(r, key) ==
    IsDict(r) /\ key \in DOMAIN r.m /\ r.m[key].k = "list" /\ r.m[key].items # <<>>
AttrList(r, a) ==
    /\ a \in DOMAIN AttrsOf(r)
    /\ AttrsOf(r)[a].k \in {"list", "tuple"}
    /\ AttrsOf(r)[a].items # <<>>

\* reading the attributes rule i looks at raises
RuleBreaks(i, r) ==
    CASE i = 1 -> HasAttrRaises(r, "text")
      [] i = 5 -> \/ HasAttrRaises(r, "candidates")
                  \/ /\ AttrList(r, "candidates")
                     /\ HasAttrRaises(FirstOf(AttrsOf(r)["candidates"]), "text")
      [] i = 6 -> HasAttrRaises(r, "outputs")
      [] OTHER -> FALSE

RuleApplies(i, r) ==
    CASE i = 1 -> "text" \in DOMAIN AttrsOf(r) /\ IsStr(AttrsOf(r)["text"])
      [] i = 2 -> IsDict(r) /\ "output" \in DOMAIN r.m /\ IsStr(r.m["output"])
      [] i = 3 -> /\ KeyList(r, "outputs")
                  /\ IsDict(FirstOf(r.m["outputs"]))
                  /\ StrKeys(FirstOf(r.m["outputs"])) # {}
      [] i = 4 -> /\ KeyList(r, "candidates")
                  /\ IsDict(FirstOf(r.m["candidates"]))
                  /\ "output" \in DOMAIN FirstOf(r.m["candidates"]).m
      [] i = 5 -> /\ AttrList(r, "candidates")
                  /\ LET first == FirstOf(AttrsOf(r)["candidates"]) IN
                     \/ "text" \in DOMAIN AttrsOf(first)
                     \/ IsDict(first) /\ "output" \in DOMAIN first.m
      [] i = 6 -> /\ AttrList(r, "outputs")
                  /\ LET first == FirstOf(AttrsOf(r)["outputs"]) IN
                     \/ IsStr(first)
                     \/ IsDict(first) /\ StrKeys(first) # {}

RuleValue(i, r) ==
    CASE i = 1 -> AttrsOf(r)["text"]
      [] i = 2 -> r.m["output"]
      [] i = 3 -> LET first == FirstOf(r.m["outputs"])
                  IN first.m[KeyPriority[Min(StrKeys(first))]]
      [] i = 4 -> FirstOf(r.m["candidates"]).m["output"]
      [] i = 5 -> LET first == FirstOf(AttrsOf(r)["candidates"])
                  IN IF "text" \in DOMAIN AttrsOf(first)
                         THEN AttrsOf(first)["text"]
                         ELSE first.m["output"]
      [] i = 6 -> LET first == FirstOf(AttrsOf(r)["outputs"])
                  IN IF IsStr(first) THEN first
                     ELSE first.m[KeyPriority[Min(StrKeys(first))]]

\* the rules that settle the result of r: they apply, or reading for them
\* raises
Deciding(r) == {i \in 1..6 : RuleBreaks(i, r) \/ RuleApplies(i, r)}

\* C9: _parse_response_text returns the value of the first rule, in the
\* order 1 text attribute, 2 "output" entry, 3 "outputs"[0] by content / text
\* / output, 4 "candidates"[0]["output"], 5 candidates attribute, 6 outputs
\* attribute, that applies; and it returns str(raw) exactly when no rule
\* applies or when reading an attribute raised before one did.
C9_FirstApplicableRuleWins ==
    n_result # Pending =>
        n_result =
            IF Deciding(n_raw) = {} \/ RuleBreaks(Min(Deciding(n_raw)), n_raw)
                THEN Return(PyStr(n_raw))
                ELSE Return(RuleValue(Min(Deciding(n_raw)), n_raw))

\* a dict with a str text attribute and a different str under "output":
\* the text attribute was returned
C9_Witness ==
    /\ n_result # Pending
    /\ IsDict(n_raw)
    /\ RuleApplies(1, n_raw)
    /\ RuleApplies(2, n_raw)
    /\ RuleValue(1, n_raw) # RuleValue(2, n_raw)
    /\ n_result = Return(RuleValue(1, n_raw))

\* C7: on a non-empty upstream list choose_model returns the name of a
\* descriptor of the list: one whose name equals, ignoring case, the earliest
\* preferred entry that any descriptor name equals ignoring case; failing
\* that, the first descriptor whose capabilities hold a generation tag
\* ignoring case; failing that, the first descriptor.
C7_ChoosesByPreferenceThenCapability ==
    (cm_result # Pending /\ cm_models.kind = "return" /\ cm_models.value # <<>>) =>
        LET models == cm_models.value
            preferred == IF cm_preferred.given THEN cm_preferred.list
                         ELSE DefaultPreferred
            matches(i) == {j \in DOMAIN models :
                              Lower(NameOf(models[j])) = Lower(preferred[i])}
            hits == {i \in DOMAIN preferred : matches(i) # {}}
            capable == {j \in DOMAIN models :
                          \E c \in DOMAIN models[j].capabilities :
                              Lower(models[j].capabilities[c]) \in GenerationTags}
        IN /\ cm_result.kind = "return"
           /\ \E j \in DOMAIN models : NameOf(models[j]) = cm_result.value
           /\ IF hits # {}
                  THEN \E j \in matches(Min(hits)) :
                          NameOf(models[j]) = cm_result.value
              ELSE IF capable # {}
                  THEN cm_result.value = NameOf(models[Min(capable)])
              ELSE cm_result.value = NameOf(models[1])

\* preferred ["model-a", "model-b"], an upstream list whose first descriptor
\* matches neither and whose second is named "Model-B": "Model-B" is chosen
C7_Witness ==
    /\ cm_result # Pending
    /\ cm_preferred = [given |-> TRUE, list |-> << <<"m", "o", "d", "e", "l", "-", "a">>, <<"m", "o", "d", "e", "l", "-", "b">> >>]
    /\ cm_models.kind = "return"
    /\ Len(cm_models.value) = 2
    /\ NameOf(cm_models.value[1]) = <<"e", "m", "b", "e", "d", "-", "1">>
    /\ NameOf(cm_models.value[2]) = <<"M", "o", "d", "e", "l", "-", "B">>
    /\ cm_result = Return( <<"M", "o", "d", "e", "l", "-", "B">> )

IsTypeError(c) == c.result.kind = "raise" /\ c.result.exc.type = "TypeError"

\* C10: in both routes responses.create is called at most twice per request:
\* first with input; with prompt only right after the input call raised
\* TypeError, and then always (the handler is at the retry until it is made);
\* when the input call raised another error, or the prompt call raised,
\* strategy 3 has failed: in /api/generate the error is last_exc until
\* strategy 4 is called, nothing but create is called afterwards and a text
\* that is returned is the one of create, in
\* /api/debug-generate the third attempt record is the failure with that
\* error.
C10_ResponsesCreateRetry ==
    LET rc == ResponsesCalls
        n == Len(ResponsesCalls)
        failed == \/ n = 1 /\ rc[1].result.kind = "raise" /\ ~IsTypeError(rc[1])
                  \/ n = 2 /\ rc[2].result.kind = "raise"
    IN /\ n <= 2
       /\ n >= 1 => rc[1].param = "input"
       /\ n = 2 => rc[2].param = "prompt" /\ IsTypeError(rc[1])
       /\ (n = 1 /\ IsTypeError(rc[1])) <=> pc \in {"s3prompt", "d3prompt"}
       /\ \A i \in DOMAIN calls : \A j \in DOMAIN calls :
             (i < j /\ calls[i].method = "responses.create") =>
                 calls[j].method \in {"responses.create", "create"}
       /\ (failed /\ route = "generate") =>
             /\ pc \in {"s4", "done"}
             /\ calls[Len(calls)].method = "responses.create"
                    => last_exc = rc[n].result.exc
             /\ (pc = "done" /\ gen_result.kind = "return")
                    => calls[Len(calls)].method = "create"
       /\ (failed /\ route = "debug") =>
             /\ pc \in {"d4", "done"}
             /\ Len(attempts) >= 3
             /\ attempts[3] = [method |-> "genai.responses.create", ok |-> FALSE,
                               error |-> Str(ExcRepr(rc[n].result.exc))]

\* /api/generate: the input call raised TypeError, the prompt retry raised
\* TypeError too, and strategy 4 was called next
C10_Witness ==
    /\ route = "generate"
    /\ Len(ResponsesCalls) = 2
    /\ IsTypeError(ResponsesCalls[2])
    /\ calls[Len(calls)].method = "create"

====
